---- MODULE Spec2Model ----
(***************************************************************************)
(* Model of ddns_aws_ipv6.py: one reconciliation pass of Route53DDNSIPv6   *)
(* (read /proc/net/if_inet6, list the AAAA record, build the change batch, *)
(* submit it), run periodically by an external scheduler.                  *)
(*                                                                         *)
(* Text is modelled as a sequence of one-character strings, so that        *)
(* splitting, colon insertion, IPv6 parsing and str() are computed.        *)
(* Record names and types are TLA+ strings (only compared and suffixed).   *)
(***************************************************************************)
EXTENDS Integers, Sequences, FiniteSets, TLC

VARIABLES
    table,                  \* lines of /proc/net/if_inet6
    readable,               \* whether open('/proc/net/if_inet6') succeeds
    zone,                   \* the provider's record sets, by key index
    pc,                     \* position of the process
    public_ipv6_addresses,  \* result of _get_public_ipv6_addresses
    response,               \* list_resource_record_sets response
    existing_values,        \* result of _get_existing_aaaa_record_values
    changes,                \* the change batch built by the Diff/Builder
    log,                    \* events logged by this process invocation
    error,                  \* the uncaught exception that ended the process
    listCalls,              \* list_resource_record_sets calls of this run
    changeCalls,            \* change_resource_record_sets calls of this run
    prev_write_ok           \* the previous run ended with a successful write

vars == <<table, readable, zone, pc, public_ipv6_addresses, response,
          existing_values, changes, log, error, listCalls, changeCalls,
          prev_write_ok>>

\* ------------------------------------------------------------------ bounds

MaxRows == 2

\* ------------------------------------------------------- program constants

IfaceField == 5
GroupLen == 4
TTL == 300
MaxItems == 1

Iface == <<"e", "t", "h", "0">>
hostname == "host.example.com"
RecordName == hostname \o "."
RecordType == "AAAA"

\* ------------------------------------------------------------ text helpers

Rep(c, n) == [i \in 1..n |-> c]

Range(s) == {s[i] : i \in 1..Len(s)}

Has(s, e) == \E i \in 1..Len(s) : s[i] = e

\* the k-th smallest element of a set of integers
Kth(S, k) == CHOOSE x \in S : Cardinality({y \in S : y < x}) = k - 1

\* where the fields of a line start, and where the field starting at i ends
FieldStarts(s) == {i \in 1..Len(s) : s[i] # " " /\ (i = 1 \/ s[i - 1] = " ")}
FieldEnd(s, i) ==
    CHOOSE j \in i..Len(s) :
        /\ \A k \in i..j : s[k] # " "
        /\ (j = Len(s) \/ s[j + 1] = " ")

\* str.split(): fields separated by runs of whitespace
split(line) ==
    [k \in 1..Cardinality(FieldStarts(line)) |->
        SubSeq(line, Kth(FieldStarts(line), k),
                     FieldEnd(line, Kth(FieldStarts(line), k)))]

Colons(s) == {i \in 1..Len(s) : s[i] = ":"}

\* str.split(':'): empty parts are kept
SplitColon(s) ==
    [k \in 1..(Cardinality(Colons(s)) + 1) |->
        SubSeq(s, IF k = 1 THEN 1 ELSE Kth(Colons(s), k - 1) + 1,
                  IF k = Cardinality(Colons(s)) + 1 THEN Len(s)
                  ELSE Kth(Colons(s), k) - 1)]

RECURSIVE JoinFrom(_, _)
JoinFrom(parts, i) ==
    IF i > Len(parts) THEN <<>>
    ELSE IF i = Len(parts) THEN parts[i]
    ELSE parts[i] \o <<":">> \o JoinFrom(parts, i + 1)

\* ':'.join(parts)
Join(parts) == JoinFrom(parts, 1)

\* [s[i:i+4] for i in range(0, len(s), 4)]
Chunks(s) ==
    [k \in 1..((Len(s) + GroupLen - 1) \div GroupLen) |->
        SubSeq(s, GroupLen * (k - 1) + 1,
                  IF GroupLen * k < Len(s) THEN GroupLen * k ELSE Len(s))]

\* lines 54-61: an address with colons is used as is, else colons are inserted
FormatAddress(ipv6_address) ==
    IF Has(ipv6_address, ":") THEN ipv6_address ELSE Join(Chunks(ipv6_address))

\* ------------------------------------------------- ipaddress.IPv6Address

HexDigits == <<"0", "1", "2", "3", "4", "5", "6", "7",
               "8", "9", "a", "b", "c", "d", "e", "f">>
UpperDigits == <<"0", "1", "2", "3", "4", "5", "6", "7",
                 "8", "9", "A", "B", "C", "D", "E", "F">>

IsHexChar(c) == \E d \in 1..16 : HexDigits[d] = c \/ UpperDigits[d] = c

HexVal(c) == (CHOOSE d \in 1..16 : HexDigits[d] = c \/ UpperDigits[d] = c) - 1

RECURSIVE HextetValUpTo(_, _)
HextetValUpTo(part, n) ==
    IF n = 0 THEN 0
    ELSE 16 * HextetValUpTo(part, n - 1) + HexVal(part[n])

\* int(hextet_str, 16)
HextetVal(part) == HextetValUpTo(part, Len(part))

\* _parse_hextet accepts one to four hexadecimal digits
HextetOk(part) ==
    /\ Len(part) >= 1
    /\ Len(part) <= 4
    /\ \A i \in 1..Len(part) : IsHexChar(part[i])

\* indices of the empty inner parts ("::")
SkipIndexes(parts) == {i \in 2..(Len(parts) - 1) : parts[i] = <<>>}

\* the parts before and after "::" (all eight when there is none)
HiCount(parts) ==
    IF SkipIndexes(parts) = {} THEN Len(parts)
    ELSE LET k == CHOOSE i \in SkipIndexes(parts) : TRUE
         IN  IF parts[1] = <<>> THEN k - 2 ELSE k - 1

LoCount(parts) ==
    IF SkipIndexes(parts) = {} THEN 0
    ELSE LET k == CHOOSE i \in SkipIndexes(parts) : TRUE
         IN  IF parts[Len(parts)] = <<>> THEN Len(parts) - k - 1 ELSE Len(parts) - k

\* IPv6Address(text) does not raise AddressValueError
ValidIPv6(text) ==
    LET parts == SplitColon(text)
        n == Len(parts)
        skips == SkipIndexes(parts)
    IN  /\ n >= 3
        /\ n <= 9
        /\ Cardinality(skips) <= 1
        /\ IF skips = {}
           THEN /\ n = 8
                /\ \A i \in 1..n : HextetOk(parts[i])
           ELSE /\ (parts[1] = <<>> => HiCount(parts) = 0)
                /\ (parts[n] = <<>> => LoCount(parts) = 0)
                /\ 8 - (HiCount(parts) + LoCount(parts)) >= 1
                /\ \A i \in 1..n :
                      (parts[i] # <<>>) => HextetOk(parts[i])

\* the eight 16-bit groups of a valid address
ParseIPv6(text) ==
    LET parts == SplitColon(text)
        n == Len(parts)
        hi == HiCount(parts)
        lo == LoCount(parts)
        first == IF parts[1] = <<>> THEN 1 ELSE 0
    IN  [i \in 1..8 |->
            IF i <= hi THEN HextetVal(parts[i + first])
            ELSE IF i > 8 - lo THEN HextetVal(parts[(IF parts[n] = <<>> THEN n - 1 ELSE n) - (8 - i)])
            ELSE 0]

\* ip.is_private: membership in the reserved networks of the ipaddress module
is_private(ip) ==
    \/ (\A i \in 1..7 : ip[i] = 0) /\ ip[8] \in {0, 1}           \* ::/128, ::1/128
    \/ (\A i \in 1..5 : ip[i] = 0) /\ ip[6] = 65535               \* ::ffff:0:0/96
    \/ ip[1] = 256 /\ ip[2] = 0 /\ ip[3] = 0 /\ ip[4] = 0         \* 100::/64
    \/ ip[1] = 8193 /\ ip[2] < 512                                \* 2001::/23
    \/ ip[1] = 8193 /\ ip[2] = 3512                               \* 2001:db8::/32
    \/ ip[1] \div 512 = 126                                       \* fc00::/7
    \/ ip[1] \div 64 = 1018                                       \* fe80::/10

\* ip.is_global
is_global(ip) == ~is_private(ip)

RECURSIVE Hex(_)
\* '%x' % n
Hex(n) == IF n < 16 THEN <<HexDigits[n + 1]>>
          ELSE Hex(n \div 16) \o <<HexDigits[(n % 16) + 1]>>

RECURSIVE ZeroRun(_, _)
\* length of the run of zero groups starting at i
ZeroRun(ip, i) == IF i > 8 \/ ip[i] # 0 THEN 0 ELSE 1 + ZeroRun(ip, i + 1)

\* str(ip): lower-case groups, the first longest run of two or more zero
\* groups compressed to "::"
Str(ip) ==
    LET best == CHOOSE m \in 0..8 :
                    /\ \E i \in 1..8 : ZeroRun(ip, i) = m
                    /\ \A i \in 1..8 : ZeroRun(ip, i) <= m
        start == CHOOSE i \in 1..8 :
                    /\ ZeroRun(ip, i) = best
                    /\ \A j \in 1..(i - 1) : ZeroRun(ip, j) < best
        hexes == [i \in 1..8 |-> Hex(ip[i])]
    IN  IF best > 1
        THEN Join((IF start = 1 THEN <<<<>>>> ELSE <<>>)
                  \o SubSeq(hexes, 1, start - 1)
                  \o <<<<>>>>
                  \o SubSeq(hexes, start + best, 8)
                  \o (IF start + best - 1 = 8 THEN <<<<>>>> ELSE <<>>))
        ELSE Join(hexes)

\* ------------------------------------------- /proc/net/if_inet6 contents

Line(addr, dev) ==
    addr \o <<" ", "0", "2", " ", "4", "0", " ", "0", "0", " ", "8", "0", " ", " ">> \o dev

Global1Hex == <<"2", "a", "0", "0">> \o Rep("0", 27) \o <<"1">>
Global2Hex == <<"2", "a", "0", "0">> \o Rep("0", 27) \o <<"2">>
Global3Hex == <<"2", "a", "0", "0">> \o Rep("0", 27) \o <<"3">>
LinkLocalHex == <<"f", "e", "8", "0">> \o Rep("0", 27) \o <<"1">>
LoopbackHex == Rep("0", 31) \o <<"1">>
BadHex == <<"2", "a", "0", "g">> \o Rep("0", 28)
Global1Colon == <<"2", "A", "0", "0", ":", ":", "1">>

RowGlobal1 == Line(Global1Hex, Iface)
RowGlobal2 == Line(Global2Hex, Iface)
RowLinkLocal == Line(LinkLocalHex, Iface)
RowOtherIface == Line(Global3Hex, <<"e", "t", "h", "1">>)
RowLoopback == Line(LoopbackHex, <<"l", "o">>)
RowBadAddress == Line(BadHex, Iface)
RowColon == Line(Global1Colon, Iface)
RowShort == Global2Hex \o <<" ", "0", "2">>

Rows == {RowGlobal1, RowGlobal2, RowLinkLocal, RowOtherIface, RowLoopback,
         RowBadAddress, RowColon, RowShort}

Tables == UNION {[1..n -> Rows] : n \in 0..MaxRows}

\* ------------------------------------ _get_public_ipv6_addresses (44-71)

\* parts[5] raises IndexError on a line of fewer than six fields
RowRaises(line) == Len(split(line)) <= IfaceField

\* the addresses one line appends to ipv6_addresses
RowAddresses(line) ==
    LET parts == split(line)
        formatted_ipv6 == FormatAddress(parts[1])
    IN  IF parts[IfaceField + 1] = Iface
        THEN IF ValidIPv6(formatted_ipv6) /\ is_global(ParseIPv6(formatted_ipv6))
             THEN <<ParseIPv6(formatted_ipv6)>>
             ELSE <<>>
        ELSE <<>>

ExtractRaises(lines) == \E i \in 1..Len(lines) : RowRaises(lines[i])

RECURSIVE ExtractFrom(_, _)
ExtractFrom(lines, i) ==
    IF i > Len(lines) THEN <<>>
    ELSE RowAddresses(lines[i]) \o ExtractFrom(lines, i + 1)

\* the list the loop of lines 49-69 builds, in table order
Extract(lines) == ExtractFrom(lines, 1)

\* --------------------------------------------------- the DNS provider

\* the record keys of the zone, in the provider's listing order
ZoneKeys == <<[Name |-> "alpha.example.com.", Type |-> "AAAA"],
              [Name |-> RecordName, Type |-> RecordType],
              [Name |-> RecordName, Type |-> "MX"],
              [Name |-> "www.example.com.", Type |-> "AAAA"]>>

KeyIndex(name, type) ==
    CHOOSE k \in 1..Len(ZoneKeys) : ZoneKeys[k] = [Name |-> name, Type |-> type]

Text1 == Str(ParseIPv6(FormatAddress(Global1Hex)))
Text2 == Str(ParseIPv6(FormatAddress(Global2Hex)))
Text3 == Str(ParseIPv6(FormatAddress(Global3Hex)))

\* the values a pre-existing record of each key holds
OtherValues == <<<<Text3>>, <<>>, <<<<"1", "0", " ", "m", "x">>>>, <<Text1>>>>

\* the value lists the hostname's AAAA record may start with (<<>>: absent)
TargetOptions == {<<>>, <<Text1>>, <<Text1, Text2>>, <<Global1Colon>>}

\* which other records the zone holds
OtherPresence == {{}, {1}, {3}, {4}}

RecordSetOf(z, k) ==
    [Name |-> ZoneKeys[k].Name, Type |-> ZoneKeys[k].Type, TTL |-> TTL,
     ResourceRecords |-> [i \in 1..Len(z[k]) |-> [Value |-> z[k][i]]]]

RECURSIVE ListFrom(_, _, _)
ListFrom(z, k, n) ==
    IF k > Len(ZoneKeys) \/ n = 0 THEN <<>>
    ELSE IF z[k] = <<>> THEN ListFrom(z, k + 1, n)
    ELSE <<RecordSetOf(z, k)>> \o ListFrom(z, k + 1, n - 1)

\* list_resource_record_sets: at most maxItems record sets, in listing order,
\* starting at the first one at or after (startName, startType)
ListRecords(z, startName, startType, maxItems) ==
    [ResourceRecordSets |-> ListFrom(z, KeyIndex(startName, startType), maxItems)]

Values(rrs) == [i \in 1..Len(rrs.ResourceRecords) |-> rrs.ResourceRecords[i].Value]

RECURSIVE ApplyUpTo(_, _, _)
ApplyUpTo(z, batch, n) ==
    IF n = 0 THEN z
    ELSE [ApplyUpTo(z, batch, n - 1)
            EXCEPT ![KeyIndex(batch[n].ResourceRecordSet.Name,
                              batch[n].ResourceRecordSet.Type)]
                        = Values(batch[n].ResourceRecordSet)]

\* change_resource_record_sets: CREATE and UPSERT set the value list of the
\* record keyed by name and type; the batch is applied in order
ApplyChanges(z, batch) == ApplyUpTo(z, batch, Len(batch))

\* ------------------------------- _get_existing_aaaa_record_values (82-89)

\* response['ResourceRecordSets'][0] raises IndexError on an empty list
ReaderRaises(resp) ==
    /\ "ResourceRecordSets" \in DOMAIN resp
    /\ resp.ResourceRecordSets = <<>>

\* faulty variant: the record's name is not compared
RecordValuesTypeOnly(resp) ==
    IF "ResourceRecordSets" \in DOMAIN resp
    THEN LET record_set == resp.ResourceRecordSets[1]
         IN  IF record_set.Type = "AAAA" THEN Values(record_set) ELSE <<>>
    ELSE <<>>

RecordValues(resp) ==
    IF "ResourceRecordSets" \in DOMAIN resp
    THEN LET record_set == resp.ResourceRecordSets[1]
         IN  IF record_set.Name = hostname \o "." /\ record_set.Type = "AAAA"
             THEN Values(record_set)
             ELSE <<>>
    ELSE <<>>

\* ------------------------------------ _update_route53_aaaa_record (96-139)

StrAll(addresses) == [i \in 1..Len(addresses) |-> Str(addresses[i])]

RECURSIVE FilterFrom(_, _, _)
FilterFrom(strs, existing, i) ==
    IF i > Len(strs) THEN <<>>
    ELSE (IF Has(existing, strs[i]) THEN <<>> ELSE <<strs[i]>>)
         \o FilterFrom(strs, existing, i + 1)

\* [str(addr) for addr in ipv6_addresses if str(addr) not in existing_values]
Filter(strs, existing) == FilterFrom(strs, existing, 1)

\* faulty variant: addresses already published are not filtered out
NewAddressesUnfiltered(addresses, existing) == StrAll(addresses)

NewAddresses(addresses, existing) == Filter(StrAll(addresses), existing)

Change(action, values) ==
    [Action |-> action,
     ResourceRecordSet |->
        [Name |-> hostname \o ".", Type |-> "AAAA", TTL |-> TTL,
         ResourceRecords |-> [i \in 1..Len(values) |-> [Value |-> values[i]]]]]

\* faulty variant: the early return is missing
UpToDateNever(addresses, existing) == FALSE

\* the early return of lines 100-103
UpToDate(addresses, existing) ==
    existing # <<>> /\ NewAddresses(addresses, existing) = <<>>

\* faulty variant: the CREATE carries only the first address
BuildChangesFirstOnly(addresses, existing) ==
    IF existing # <<>>
    THEN LET new_addresses == Filter(StrAll(addresses), existing)
         IN  [i \in 1..Len(new_addresses) |-> Change("UPSERT", <<new_addresses[i]>>)]
    ELSE <<Change("CREATE", <<Str(addresses[1])>>)>>

BuildChanges(addresses, existing) ==
    IF existing # <<>>
    THEN LET new_addresses == NewAddresses(addresses, existing)
         IN  [i \in 1..Len(new_addresses) |-> Change("UPSERT", <<new_addresses[i]>>)]
    ELSE <<Change("CREATE", StrAll(addresses))>>

\* ------------------------------------------------------------- the process

NoResponse == [Failed |-> TRUE]

Init ==
    /\ \/ readable = TRUE /\ table \in Tables
       \/ readable = FALSE /\ table = <<>>
    /\ \E t \in TargetOptions, others \in OtherPresence :
          zone = [k \in 1..Len(ZoneKeys) |->
                    IF k = KeyIndex(RecordName, RecordType) THEN t
                    ELSE IF k \in others THEN OtherValues[k] ELSE <<>>]
    /\ pc = "start"
    /\ public_ipv6_addresses = <<>>
    /\ response = NoResponse
    /\ existing_values = <<>>
    /\ changes = <<>>
    /\ log = <<>>
    /\ error = "none"
    /\ listCalls = 0
    /\ changeCalls = 0
    /\ prev_write_ok = FALSE

\* lines 153-154
Start ==
    /\ pc = "start"
    /\ log' = Append(log, "started")
    /\ pc' = "discover"
    /\ UNCHANGED <<table, readable, zone, public_ipv6_addresses, response,
                   existing_values, changes, error, listCalls, changeCalls,
                   prev_write_ok>>

\* line 157: the Extractor returns its list
Discover ==
    /\ pc = "discover"
    /\ readable
    /\ ~ExtractRaises(table)
    /\ public_ipv6_addresses' = Extract(table)
    /\ pc' = "branch"
    /\ UNCHANGED <<table, readable, zone, response, existing_values, changes,
                   log, error, listCalls, changeCalls,
                   prev_write_ok>>

\* line 48: open() raises and nothing catches it
DiscoverOpenFails ==
    /\ pc = "discover"
    /\ ~readable
    /\ error' = "FileNotFoundError"
    /\ pc' = "failed"
    /\ UNCHANGED <<table, readable, zone, public_ipv6_addresses, response,
                   existing_values, changes, log, listCalls, changeCalls,
                   prev_write_ok>>

\* line 51: parts[5] raises IndexError and nothing catches it
DiscoverRowFails ==
    /\ pc = "discover"
    /\ readable
    /\ ExtractRaises(table)
    /\ error' = "IndexError"
    /\ pc' = "failed"
    /\ UNCHANGED <<table, readable, zone, public_ipv6_addresses, response,
                   existing_values, changes, log, listCalls, changeCalls,
                   prev_write_ok>>

\* lines 159-162
Attempt ==
    /\ pc = "branch"
    /\ public_ipv6_addresses # <<>>
    /\ log' = Append(log, "attempting")
    /\ pc' = "read"
    /\ UNCHANGED <<table, readable, zone, public_ipv6_addresses, response,
                   existing_values, changes, error, listCalls, changeCalls,
                   prev_write_ok>>

\* faulty variant: the warning is logged and the run goes on to reconcile
NoAddressesFallsThrough ==
    /\ pc = "branch"
    /\ public_ipv6_addresses = <<>>
    /\ log' = Append(log, "warning_no_addresses")
    /\ pc' = "read"
    /\ UNCHANGED <<table, readable, zone, public_ipv6_addresses, response,
                   existing_values, changes, error, listCalls, changeCalls,
                   prev_write_ok>>

\* lines 164-166
NoAddresses ==
    /\ pc = "branch"
    /\ public_ipv6_addresses = <<>>
    /\ log' = Append(log, "warning_no_addresses")
    /\ pc' = "no_addresses"
    /\ UNCHANGED <<table, readable, zone, public_ipv6_addresses, response,
                   existing_values, changes, error, listCalls, changeCalls,
                   prev_write_ok>>

\* lines 75-89: the provider answers and the Reader returns
ReadRecords ==
    /\ pc = "read"
    /\ listCalls' = listCalls + 1
    /\ response' = ListRecords(zone, hostname \o ".", "AAAA", MaxItems)
    /\ ~ReaderRaises(response')
    /\ existing_values' = RecordValues(response')
    /\ pc' = "diff"
    /\ UNCHANGED <<table, readable, zone, public_ipv6_addresses, changes, log,
                   error, changeCalls,
                   prev_write_ok>>

\* line 85: the provider answers with no record set and [0] raises
ReadRecordsIndexError ==
    /\ pc = "read"
    /\ listCalls' = listCalls + 1
    /\ response' = ListRecords(zone, hostname \o ".", "AAAA", MaxItems)
    /\ ReaderRaises(response')
    /\ error' = "IndexError"
    /\ pc' = "failed"
    /\ UNCHANGED <<table, readable, zone, public_ipv6_addresses,
                   existing_values, changes, log, changeCalls,
                   prev_write_ok>>

\* lines 75-80: the provider call raises and nothing catches it
ReadRecordsProviderFails ==
    /\ pc = "read"
    /\ listCalls' = listCalls + 1
    /\ error' = "ProviderQueryFailure"
    /\ pc' = "failed"
    /\ UNCHANGED <<table, readable, zone, public_ipv6_addresses, response,
                   existing_values, changes, log, changeCalls,
                   prev_write_ok>>

\* lines 96-103: nothing new, log and return
DiffUpToDate ==
    /\ pc = "diff"
    /\ UpToDate(public_ipv6_addresses, existing_values)
    /\ log' = Append(log, "up_to_date")
    /\ pc' = "return"
    /\ UNCHANGED <<table, readable, zone, public_ipv6_addresses, response,
                   existing_values, changes, error, listCalls, changeCalls,
                   prev_write_ok>>

\* lines 96-139: the change batch is built
DiffBuild ==
    /\ pc = "diff"
    /\ ~UpToDate(public_ipv6_addresses, existing_values)
    /\ changes' = BuildChanges(public_ipv6_addresses, existing_values)
    /\ pc' = "write"
    /\ UNCHANGED <<table, readable, zone, public_ipv6_addresses, response,
                   existing_values, log, error, listCalls, changeCalls,
                   prev_write_ok>>

\* lines 142-150: the provider applies the batch
Write ==
    /\ pc = "write"
    /\ changeCalls' = changeCalls + 1
    /\ zone' = ApplyChanges(zone, changes)
    /\ log' = Append(log, "updated")
    /\ pc' = "return"
    /\ UNCHANGED <<table, readable, public_ipv6_addresses, response,
                   existing_values, changes, error, listCalls, prev_write_ok>>

\* faulty variant: a failed write is retried
WriteProviderFailsRetry ==
    /\ pc = "write"
    /\ changeCalls' = changeCalls + 1
    /\ pc' = "write"
    /\ UNCHANGED <<table, readable, zone, public_ipv6_addresses, response,
                   existing_values, changes, log, error, listCalls, prev_write_ok>>

\* lines 142-147: the provider call raises and nothing catches it
WriteProviderFails ==
    /\ pc = "write"
    /\ changeCalls' = changeCalls + 1
    /\ error' = "ProviderWriteFailure"
    /\ pc' = "failed"
    /\ UNCHANGED <<table, readable, zone, public_ipv6_addresses, response,
                   existing_values, changes, log, listCalls, prev_write_ok>>

\* lines 168-169
Complete ==
    /\ pc \in {"return", "no_addresses"}
    /\ log' = Append(log, "completed")
    /\ pc' = "done"
    /\ UNCHANGED <<table, readable, zone, public_ipv6_addresses, response,
                   existing_values, changes, error, listCalls, changeCalls,
                   prev_write_ok>>

\* lines 181-184: the external scheduler starts the next process; the
\* interface table and the zone are as the previous run left them
Schedule ==
    /\ pc \in {"done", "failed"}
    /\ prev_write_ok' = Has(log, "updated")
    /\ pc' = "start"
    /\ public_ipv6_addresses' = <<>>
    /\ response' = NoResponse
    /\ existing_values' = <<>>
    /\ changes' = <<>>
    /\ log' = <<>>
    /\ error' = "none"
    /\ listCalls' = 0
    /\ changeCalls' = 0
    /\ UNCHANGED <<table, readable, zone>>

\* one process invocation
Step ==
    \/ Start
    \/ Discover
    \/ DiscoverOpenFails
    \/ DiscoverRowFails
    \/ Attempt
    \/ NoAddresses
    \/ ReadRecords
    \/ ReadRecordsIndexError
    \/ ReadRecordsProviderFails
    \/ DiffUpToDate
    \/ DiffBuild
    \/ Write
    \/ WriteProviderFails
    \/ Complete

Next == Step \/ Schedule

Spec == Init /\ [][Next]_vars

\* the statements of update_route53_record itself (lines 153-169)
Orchestrator == Start \/ Attempt \/ NoAddresses \/ Complete

\* update_route53_record always proceeds to its next statement; the calls it
\* makes (blocking file and network I/O without a timeout) and the external
\* scheduler are owed nothing
FairSpec == Spec /\ WF_vars(Orchestrator)

\* ------------------------------------------------------------ properties

Desired == Range(StrAll(public_ipv6_addresses))
Existing == Range(existing_values)
Published == zone[KeyIndex(RecordName, RecordType)]

\* the Diff/Builder has acted in this run
DiffDone ==
    \/ pc = "write"
    \/ Has(log, "up_to_date")
    \/ Has(log, "updated")
    \/ error = "ProviderWriteFailure"

\* the provider answered list_resource_record_sets in this run
Answered == "ResourceRecordSets" \in DOMAIN response

\* the Extractor raised instead of returning
ExtractorFailed == pc = "failed" /\ listCalls = 0

Occurrences(s, v) == Cardinality({i \in 1..Len(s) : s[i] = v})

Carrying(v) ==
    {i \in 1..Len(changes) :
        \E j \in 1..Len(changes[i].ResourceRecordSet.ResourceRecords) :
            changes[i].ResourceRecordSet.ResourceRecords[j].Value = v}

\* C1: operations are emitted only when the desired address set is non-empty
\* and differs from the existing set; when the two sets are equal no operation
\* is emitted and change_resource_record_sets is not called; the Writer is
\* never called with an empty batch.
C1_EmitOnlyOnDifference ==
    /\ DiffDone =>
          /\ changes # <<>> => (Desired # {} /\ Desired # Existing)
          /\ Desired = Existing => (changes = <<>> /\ changeCalls = 0)
    /\ changeCalls > 0 => changes # <<>>

C1_Witness ==
    /\ pc = "done"
    /\ Has(log, "up_to_date")
    /\ Desired = Existing
    /\ Cardinality(Desired) = 2

\* C2: with a non-empty desired list and an empty existing list the batch is
\* exactly one CREATE for the hostname, type AAAA, the fixed TTL, carrying
\* every desired address in Extractor order.
C2_CreateCarriesAll ==
    (DiffDone /\ public_ipv6_addresses # <<>> /\ existing_values = <<>>) =>
        /\ Len(changes) = 1
        /\ changes[1].Action = "CREATE"
        /\ changes[1].ResourceRecordSet.Name = RecordName
        /\ changes[1].ResourceRecordSet.Type = "AAAA"
        /\ changes[1].ResourceRecordSet.TTL = TTL
        /\ Len(changes[1].ResourceRecordSet.ResourceRecords) = Len(public_ipv6_addresses)
        /\ \A i \in 1..Len(public_ipv6_addresses) :
              changes[1].ResourceRecordSet.ResourceRecords[i].Value
                  = Str(public_ipv6_addresses[i])

C2_Witness ==
    /\ pc = "write"
    /\ existing_values = <<>>
    /\ Len(public_ipv6_addresses) = 2
    /\ Cardinality(Desired) = 2
    /\ changes[1].Action = "CREATE"

C4_ReaderExactMatch ==
    (Answered /\ response.ResourceRecordSets # <<>> /\ error = "none") =>
        LET first == response.ResourceRecordSets[1]
        IN  /\ existing_values # <<>> =>
                  /\ first.Name = RecordName
                  /\ first.Type = RecordType
                  /\ existing_values = Values(first)
            /\ (first.Name # RecordName \/ first.Type # RecordType) =>
                  existing_values = <<>>

C4_Witness ==
    /\ pc = "diff"
    /\ Answered
    /\ response.ResourceRecordSets # <<>>
    /\ response.ResourceRecordSets[1].Name = "www.example.com."
    /\ response.ResourceRecordSets[1].Type = "AAAA"
    /\ existing_values = <<>>

\* C5: when the listing is empty the Reader returns the empty list as a
\* normal result: the process does not fail and goes on to the CREATE path.
C5_EmptyListingReturnsEmpty ==
    (Answered /\ response.ResourceRecordSets = <<>>) =>
        /\ error = "none"
        /\ pc # "failed"
        /\ existing_values = <<>>

\* C6: when the interface table cannot be opened the Extractor reports no
\* addresses: the run takes the no-address path, calls the provider never,
\* and does not fail.
C6_UnreadableTableIsNoAddresses ==
    (~readable /\ pc \notin {"start", "discover"}) =>
        /\ error = "none"
        /\ pc \in {"branch", "no_addresses", "done"}
        /\ public_ipv6_addresses = <<>>
        /\ listCalls = 0
        /\ changeCalls = 0

NoAddressRun ==
    /\ pc \in {"branch", "no_addresses", "done"}
    /\ public_ipv6_addresses = <<>>

\* C7: in a run whose Extractor returns no address the provider is never
\* called, RECONCILE is never entered, the warning is logged, and the run
\* reaches its end with the completed event.
C7_NoAddressRunEnds ==
    /\ [](NoAddressRun =>
            /\ listCalls = 0
            /\ changeCalls = 0
            /\ ~Has(log, "attempting")
            /\ (pc # "branch" => Has(log, "warning_no_addresses")))
    /\ [][NoAddressRun => (NoAddressRun' \/ pc' = "start")]_vars
    /\ ((pc = "branch" /\ public_ipv6_addresses = <<>>)
            ~> (pc = "done" /\ Has(log, "warning_no_addresses")
                            /\ log[Len(log)] = "completed"))

C7_Witness ==
    /\ pc = "done"
    /\ public_ipv6_addresses = <<>>
    /\ table # <<>>
    /\ \A j \in 1..Len(table) : split(table[j])[IfaceField + 1] # Iface
    /\ Has(log, "warning_no_addresses")
    /\ log[Len(log)] = "completed"
    /\ listCalls = 0

\* C8: provider failures are neither caught nor retried: each provider call
\* is made at most once per run, a failed listing is never followed by a
\* write, and a failed call leaves the process failed without the
\* 'updated successfully' or 'completed' events.
C8_NoCatchNoRetry ==
    /\ listCalls <= 1
    /\ changeCalls <= 1
    /\ changeCalls = 1 => listCalls = 1
    /\ error = "ProviderQueryFailure" => changeCalls = 0
    /\ error \in {"ProviderQueryFailure", "ProviderWriteFailure"} =>
          /\ pc = "failed"
          /\ ~Has(log, "updated")
          /\ ~Has(log, "completed")
    /\ (pc \in {"return", "done"} /\ changeCalls = 1) => Has(log, "updated")

C8_Witness ==
    /\ error = "ProviderWriteFailure"
    /\ pc = "failed"
    /\ listCalls = 1
    /\ changeCalls = 1

\* C9: after a run whose write succeeds the published record holds every
\* discovered address, and the next run over the same addresses emits no
\* operation.
C9_IdempotentAcrossRuns ==
    /\ Has(log, "updated") => \A v \in Desired : Has(Published, v)
    /\ (prev_write_ok /\ DiffDone) => changes = <<>>

\* C10: for every table the Extractor returns without failing, and every
\* address it yields is globally routable and comes, in table order, from a
\* row of the configured interface.
C10_ExtractorTotalAndSound ==
    readable =>
        /\ ~ExtractorFailed
        /\ \A i \in 1..Len(public_ipv6_addresses) :
              /\ is_global(public_ipv6_addresses[i])
              /\ \E j \in 1..Len(table) :
                    /\ Len(split(table[j])) > IfaceField
                    /\ split(table[j])[IfaceField + 1] = Iface
                    /\ ValidIPv6(FormatAddress(split(table[j])[1]))
                    /\ ParseIPv6(FormatAddress(split(table[j])[1]))
                          = public_ipv6_addresses[i]

====
